---------------------------- MODULE Spec2Model ----------------------------
(***************************************************************************)
(* A model of the renrakucho (class contact notebook) client, src/src/App.jsx. *)
(* The variables with the suffix 0 hold the auth state of its earlier      *)
(* variant, src/unnamed/part_000.                                          *)
(*                                                                         *)
(* A JavaScript string is a sequence of UTF-16 code units; a code unit is  *)
(* written here as a short ASCII name ("7", "a", and romanised names for   *)
(* the kanji: "getsu" for U+6708, "nichi" for U+65E5, ...).  A JavaScript  *)
(* array is a sequence, read with the zero-based index of the source       *)
(* through At.                                                             *)
(***************************************************************************)
EXTENDS Integers, Sequences, FiniteSets, TLC

VARIABLES
    \* Rendering one content column (RenderSpec).
    data,         \* the content record handed to NotebookColumn
    textChars,    \* NotebookColumn's textChars (parseTextToChars(data.text))
    cells,        \* NotebookColumn's cells
    rpc,          \* "input" before the column is rendered, "rendered" after
    \* Rendering the date column (DateSpec).
    display,      \* formatDateDisplay(currentDate)
    dateCells,    \* DateColumn's cells
    dpc,          \* "input" before the date column is rendered, "rendered" after
    \* The client.
    tz,           \* the client's time zone: local time minus UTC, in minutes
    currentDate,  \* useState currentDate: the selected date key, YYYY-MM-DD
    user,         \* useState user: the signed-in account's email, or NoUser
    isAdmin,      \* useState isAdmin
    loading,      \* useState loading: no auth notification has arrived yet
    dataLoading,  \* useState dataLoading
    columns,      \* useState columns: the record list in memory
    store,        \* the collection class_notes: date key -> document
    loads,        \* loadData calls awaiting getDoc: date key -> how many
    saves,        \* setDoc calls in flight, oldest first
    copies,       \* handleCopyPreviousDay calls awaiting getDoc
    nops,         \* the number of user operations so far
    last,         \* the last step: the handler, its arguments, its alert()
    \* The read receipts (confirmation stamps) of the client.
    checks,       \* useState checks: the stamps of the last snapshot
    checkName,    \* useState checkName: the name in the stamp form
    hasChecked,   \* useState hasChecked
    localStorage, \* the browser's localStorage: a set of <<key, value>>
    checkStore,   \* the subcollections checks: date key -> documents, oldest first
    stamps,       \* addDoc calls in flight, oldest first
    listeners,    \* the onSnapshot listeners: date key -> "off", "idle", "pending"
    \* The earlier variant of the client, src/unnamed/part_000 (AuthSpec).
    authUser0,    \* the Firebase session's account (auth.currentUser)
    user0,        \* useState user
    loading0,     \* useState loading
    columns0,     \* useState columns
    pending0      \* the account a signOut in flight signs out, or NoUser

renderVars == <<data, textChars, cells, rpc>>
dateVars == <<display, dateCells, dpc>>
pureVars == <<renderVars, dateVars>>
clientVarsButLast == <<user, isAdmin, loading, dataLoading, columns, store,
                       loads, saves, copies>>
clientVars == <<clientVarsButLast, nops, last>>
stampVars == <<checks, checkName, hasChecked, localStorage, checkStore,
               stamps, listeners>>
variantVars == <<authUser0, user0, loading0, columns0, pending0>>
vars == <<renderVars, dateVars, tz, currentDate, clientVars, stampVars,
          variantVars>>

-----------------------------------------------------------------------------
(* Bounds of the model. *)

\* Strings of up to MaxLen code units are enumerated over Alphabet ...
MaxLen == 4
\* ... and repeated up to MaxRepeat times, so that texts longer than the
\* grid (MaxLen * MaxRepeat > GRID_ROWS) are among the inputs.
MaxRepeat == 4

\* Two ASCII digits, a letter, white space and a full-width digit (U+FF11,
\* which \d does not match).
Alphabet == {"0", "7", "a", " ", "fw1"}

-----------------------------------------------------------------------------
(* Constants of the program. *)

GRID_ROWS == 12

Types == {"handout", "homework", "normal", "contact", "belongings", "empty"}

\* JavaScript's null, and the undefined an out-of-range array read yields.
Null == [isNull |-> TRUE]
Undefined == [isUndefined |-> TRUE]

\* arr[i] of the source: zero-based, undefined outside the array.
At(arr, i) == IF i + 1 \in DOMAIN arr THEN arr[i + 1] ELSE Undefined

\* x || null for x an object or undefined (objects are truthy).
OrNull(x) == IF x = Undefined \/ x = Null THEN Null ELSE x

-----------------------------------------------------------------------------
(* parseTextToChars *)

\* \d of a JavaScript regular expression without the u flag: [0-9] only.
IsDigit(c) == c \in {"0", "1", "2", "3", "4", "5", "6", "7", "8", "9"}

\* The pattern /(\d.)|([\s\S])/g: a digit pairs with whatever follows it.
RegexExec_FirstDigitOnly(text, i) ==
    IF i > Len(text) THEN Null
    ELSE IF i + 1 <= Len(text) /\ IsDigit(text[i])
         THEN [char |-> SubSeq(text, i, i + 1), isTateChuYoko |-> TRUE]
         ELSE [char |-> SubSeq(text, i, i), isTateChuYoko |-> FALSE]

\* One regex.exec of /(\d{2})|([\s\S])/g with lastIndex = i - 1 (i is the
\* one-based position): the first alternative is tried first at the
\* position, then the second; [\s\S] matches any code unit, so a match never
\* starts later than lastIndex.  The result is the pushed unit, or Null when
\* exec returns null (lastIndex at the end of the text).
RegexExec(text, i) ==
    IF i > Len(text) THEN Null
    ELSE IF i + 1 <= Len(text) /\ IsDigit(text[i]) /\ IsDigit(text[i + 1])
         THEN [char |-> SubSeq(text, i, i + 1), isTateChuYoko |-> TRUE]
         ELSE [char |-> SubSeq(text, i, i), isTateChuYoko |-> FALSE]

\* A loop that advances lastIndex by one code unit after every match.
RECURSIVE ExecLoop_AdvanceOne(_, _, _)
ExecLoop_AdvanceOne(text, i, chars) ==
    LET match == RegexExec(text, i)
    IN  IF match = Null THEN chars
        ELSE ExecLoop_AdvanceOne(text, i + 1, Append(chars, match))

RECURSIVE ExecLoop(_, _, _)
\* The while loop: chars is the array built so far, i - 1 the regex's
\* lastIndex, which exec advances by the length of the match.
ExecLoop(text, i, chars) ==
    LET match == RegexExec(text, i)
    IN  IF match = Null THEN chars
        ELSE ExecLoop(text, i + Len(match.char), Append(chars, match))

parseTextToChars(text) ==
    IF text = <<>> THEN <<>> ELSE ExecLoop(text, 1, <<>>)

-----------------------------------------------------------------------------
(* NotebookColumn *)

\* textChars[i] in place of textChars[i - 1].
NotebookColumn_NoOffset(d) ==
    LET firstCellData == [isMark |-> TRUE, markType |-> d.type]
        chars == parseTextToChars(d.text)
    IN  [i \in 0 .. GRID_ROWS - 1 |->
            IF i = 0 THEN firstCellData ELSE OrNull(At(chars, i))]

NotebookColumn(d) ==
    LET firstCellData == [isMark |-> TRUE, markType |-> d.type]
        chars == parseTextToChars(d.text)
    IN  [i \in 0 .. GRID_ROWS - 1 |->
            IF i = 0 THEN firstCellData ELSE OrNull(At(chars, i - 1))]

-----------------------------------------------------------------------------
(* Strings of digits: String(n), padStart(2, '0'), and the parse of the   *)
(* fields of a date key.                                                   *)

Digits == <<"0", "1", "2", "3", "4", "5", "6", "7", "8", "9">>

DigitValue(c) == CHOOSE v \in 0 .. 9 : Digits[v + 1] = c

RECURSIVE NumberToString(_)
\* String(n), and `${n}` in a template literal, for an integer n >= 0.
NumberToString(n) ==
    IF n < 10 THEN <<Digits[n + 1]>>
    ELSE NumberToString(n \div 10) \o <<Digits[(n % 10) + 1]>>

\* s.padStart(2, '0')
PadStart2(s) == IF Len(s) < 2 THEN <<"0">> \o s ELSE s

RECURSIVE ParseDigits(_)
ParseDigits(s) ==
    IF s = <<>> THEN 0
    ELSE 10 * ParseDigits(SubSeq(s, 1, Len(s) - 1)) + DigitValue(s[Len(s)])

-----------------------------------------------------------------------------
(* The Date object (ECMAScript's Date, for a zone with the fixed offset tz). *)
(* A time value is held in minutes since the epoch: every offset is a whole  *)
(* number of minutes and no claim reads seconds.                             *)

MinutesPerDay == 24 * 60

\* The day number (days since 1970-01-01) of a date of the proleptic
\* Gregorian calendar; month is 1-based here.
DaysFromCivil(year, month, day) ==
    LET y == IF month <= 2 THEN year - 1 ELSE year
        era == y \div 400
        yoe == y - era * 400
        mp == IF month > 2 THEN month - 3 ELSE month + 9
        doy == (153 * mp + 2) \div 5 + day - 1
        doe == yoe * 365 + yoe \div 4 - yoe \div 100 + doy
    IN  era * 146097 + doe - 719468

\* The date of a day number: [year, month (1-based), day].
CivilFromDays(z) ==
    LET zz == z + 719468
        era == zz \div 146097
        doe == zz - era * 146097
        yoe == (doe - doe \div 1460 + doe \div 36524 - doe \div 146096) \div 365
        doy == doe - (365 * yoe + yoe \div 4 - yoe \div 100)
        mp == (5 * doy + 2) \div 153
        d == doy - (153 * mp + 2) \div 5 + 1
        m == IF mp < 10 THEN mp + 3 ELSE mp - 9
    IN  [year |-> IF m <= 2 THEN yoe + era * 400 + 1 ELSE yoe + era * 400,
         month |-> m, day |-> d]

\* new Date(dateStr) for a date-only ISO string YYYY-MM-DD: the time value of
\* 00:00 UTC of that date (a date-only form is read as UTC, not local time).
NewDate(dateStr) ==
    DaysFromCivil(ParseDigits(SubSeq(dateStr, 1, 4)),
                  ParseDigits(SubSeq(dateStr, 6, 7)),
                  ParseDigits(SubSeq(dateStr, 9, 10))) * MinutesPerDay

\* The local day number of a time value, and the local date's fields.
LocalDay(t) == (t + tz) \div MinutesPerDay
getFullYear(t) == CivilFromDays(LocalDay(t)).year
getMonth(t) == CivilFromDays(LocalDay(t)).month - 1
getDate(t) == CivilFromDays(LocalDay(t)).day
\* 1970-01-01 was a Thursday (4); 0 is Sunday.
getDay(t) == (LocalDay(t) + 4) % 7

\* d.setDate(n): the local day of the month becomes n, the local month, year
\* and time of day are kept; n = 0 or n past the month's end rolls over.
setDate(t, n) ==
    LET local == t + tz
        first == DaysFromCivil(getFullYear(t), getMonth(t) + 1, 1)
    IN  (first + n - 1) * MinutesPerDay + (local % MinutesPerDay) - tz

\* `${year}-${month}-${day}` of the local date of t, month and day padded.
LocalDateKey(t) ==
    NumberToString(getFullYear(t)) \o <<"-">> \o PadStart2(NumberToString(getMonth(t) + 1))
        \o <<"-">> \o PadStart2(NumberToString(getDate(t)))

-----------------------------------------------------------------------------
(* formatDateDisplay and DateColumn *)

\* Sunday first: U+65E5, U+6708, U+706B, U+6C34, U+6728, U+91D1, U+571F.
WEEKDAYS == <<"nichi", "getsu", "ka", "sui", "moku", "kin", "do">>

formatDateDisplay(dateStr) ==
    IF dateStr = <<>> THEN [date |-> <<>>, weekday |-> <<>>]
    ELSE LET d == NewDate(dateStr)
             month == getMonth(d) + 1
             day == getDate(d)
             week == At(WEEKDAYS, getDay(d))
         IN  [date |-> NumberToString(month) \o <<"getsu">> \o NumberToString(day)
                           \o <<"nichi">>,
              weekday |-> <<week>>]

\* A column that starts the label after one blank cell.
DateColumn_OneLeadingBlank(dateStr) ==
    LET dateChars == parseTextToChars(formatDateDisplay(dateStr).date)
        weekChars == parseTextToChars(formatDateDisplay(dateStr).weekday)
        cellsRaw == <<Null>> \o dateChars \o <<Null>> \o weekChars
    IN  [i \in 0 .. GRID_ROWS - 1 |-> OrNull(At(cellsRaw, i))]

\* cellsRaw is built by the pushes; cells reads its first GRID_ROWS entries.
DateColumn(dateStr) ==
    LET dateChars == parseTextToChars(formatDateDisplay(dateStr).date)
        weekChars == parseTextToChars(formatDateDisplay(dateStr).weekday)
        cellsRaw == <<Null, Null>> \o dateChars \o <<Null>> \o weekChars
    IN  [i \in 0 .. GRID_ROWS - 1 |-> OrNull(At(cellsRaw, i))]

-----------------------------------------------------------------------------
(* The valid date keys, written from the calendar's rules (not from Date). *)

IsLeapYear(y) == (y % 4 = 0 /\ y % 100 # 0) \/ y % 400 = 0

DaysInMonth(y, m) ==
    IF m = 2 THEN (IF IsLeapYear(y) THEN 29 ELSE 28)
    ELSE IF m \in {4, 6, 9, 11} THEN 30 ELSE 31

\* The key YYYY-MM-DD of a date with a four-digit year.
DateKey(y, m, d) ==
    NumberToString(y) \o <<"-">> \o PadStart2(NumberToString(m)) \o <<"-">>
        \o PadStart2(NumberToString(d))

Years == {2023, 2024}

ValidDateKeys ==
    {DateKey(t[1], t[2], t[3]) :
        t \in {u \in Years \X (1 .. 12) \X (1 .. 31) :
                   u[3] <= DaysInMonth(u[1], u[2])}}

\* UTC-12, New York (EST), UTC, Japan, UTC+14.
ZoneOffsets == {-720, -300, 0, 540, 840}

-----------------------------------------------------------------------------
(* Rendering one content column: the inputs are drawn in RenderInit. *)

Strings(n) == UNION {[1 .. k -> Alphabet] : k \in 0 .. n}

RECURSIVE Repeat(_, _)
Repeat(s, k) == IF k = 0 THEN <<>> ELSE s \o Repeat(s, k - 1)

InputTexts == {Repeat(s, k) : s \in Strings(MaxLen), k \in 1 .. MaxRepeat}

RenderInit ==
    /\ data \in {[id |-> 1, type |-> t, text |-> s] :
                    t \in Types, s \in InputTexts}
    /\ textChars = <<>>
    /\ cells = <<>>
    /\ rpc = "input"

RenderColumn ==
    /\ rpc = "input"
    /\ textChars' = parseTextToChars(data.text)
    /\ cells' = NotebookColumn(data)
    /\ rpc' = "rendered"
    /\ UNCHANGED data

\* The rendering variables when no column is being rendered.
RenderIdle ==
    /\ data = [id |-> 1, type |-> "empty", text |-> <<>>]
    /\ textChars = <<>>
    /\ cells = <<>>
    /\ rpc = "idle"

-----------------------------------------------------------------------------
(* Rendering the date column: the inputs are drawn in DateInit. *)

DateInit ==
    /\ currentDate \in ValidDateKeys
    /\ tz \in ZoneOffsets
    /\ display = [date |-> <<>>, weekday |-> <<>>]
    /\ dateCells = <<>>
    /\ dpc = "input"

RenderDate ==
    /\ dpc = "input"
    /\ display' = formatDateDisplay(currentDate)
    /\ dateCells' = DateColumn(currentDate)
    /\ dpc' = "rendered"
    /\ UNCHANGED <<currentDate, tz>>

DateIdle ==
    /\ display = [date |-> <<>>, weekday |-> <<>>]
    /\ dateCells = <<>>
    /\ dpc = "idle"

-----------------------------------------------------------------------------
(* The client's constants and the store. *)

ADMIN_EMAIL == "d.a0807derude@gmail.com"
\* Another Google account, and no signed-in user (user = null).
OtherEmail == "viewer@example.com"
NoUser == "null"
Principals == {NoUser, ADMIN_EMAIL, OtherEmail}

DEFAULT_COLUMNS ==
    << [id |-> 1, type |-> "handout", text |-> <<>>],
       [id |-> 2, type |-> "homework", text |-> <<>>],
       [id |-> 3, type |-> "normal", text |-> <<>>],
       [id |-> 4, type |-> "contact", text |-> <<>>],
       [id |-> 5, type |-> "belongings", text |-> <<>>],
       [id |-> 6, type |-> "empty", text |-> <<>>],
       [id |-> 7, type |-> "empty", text |-> <<>>],
       [id |-> 8, type |-> "empty", text |-> <<>>] >>

\* The date keys the session selects: three days across the end of February
\* of a leap year.
AppDates == {DateKey(2024, 2, 28), DateKey(2024, 2, 29), DateKey(2024, 3, 1)}

\* The instant the session starts: 2024-03-01 03:00 UTC, which is still
\* 2024-02-29 in a zone west of UTC-3.
Now == DaysFromCivil(2024, 3, 1) * MinutesPerDay + 180

\* New York (EST) and Japan.
AppZoneOffsets == {-300, 540}

getTodayString == LocalDateKey(Now)

\* A document of class_notes: absent, or what saveData wrote (updatedAt, a
\* time stamp no operation reads, is left out).
Absent == [exists |-> FALSE]
NoteDoc(cols, date, by) ==
    [exists |-> TRUE, columns |-> cols, date |-> date, updatedBy |-> by]

\* getDoc(doc(db, "class_notes", key)) on the store st: the session writes
\* only under the keys it selects, so any other key holds nothing.
GetDoc(st, key) == IF key \in DOMAIN st THEN st[key] ELSE Absent

\* A list an earlier session of the administrator saved: a text entered in
\* the first record, then the first two records exchanged.
OldColumns ==
    << DEFAULT_COLUMNS[2],
       [DEFAULT_COLUMNS[1] EXCEPT !.text = <<"1", "2", "a">>] >>
        \o SubSeq(DEFAULT_COLUMNS, 3, Len(DEFAULT_COLUMNS))

EmptyStore == [k \in AppDates |-> Absent]

\* The store when the session starts: empty, or holding one earlier note.
InitialStores ==
    {EmptyStore} \cup
    {[EmptyStore EXCEPT ![k] = NoteDoc(OldColumns, k, ADMIN_EMAIL)] :
        k \in AppDates}

-----------------------------------------------------------------------------
(* The read receipts: localStorage, the checks subcollections, and their
   snapshot listeners. *)

\* The code units String.prototype.trim removes: a space and the ideographic
\* space U+3000 stand for the white space and line terminators.
WhiteSpace == {" ", "u3000"}

RECURSIVE TrimStart(_)
TrimStart(str) ==
    IF str # <<>> /\ Head(str) \in WhiteSpace THEN TrimStart(Tail(str))
    ELSE str

RECURSIVE TrimEnd(_)
TrimEnd(str) ==
    IF str # <<>> /\ str[Len(str)] \in WhiteSpace
    THEN TrimEnd(SubSeq(str, 1, Len(str) - 1))
    ELSE str

\* checkName.trim()
Trim(str) == TrimEnd(TrimStart(str))

\* localStorage.getItem(key), where a missing item (null) reads as dflt.
GetItem(ls, key, dflt) ==
    IF \E p \in ls : p[1] = key
    THEN (CHOOSE p \in ls : p[1] = key)[2]
    ELSE dflt

\* localStorage.getItem(key) is truthy: an item that is not the empty string.
HasItem(ls, key) == \E p \in ls : p[1] = key /\ p[2] # <<>>

\* localStorage.setItem(key, value)
SetItem(ls, key, value) == {p \in ls : p[1] # key} \cup {<<key, value>>}

\* A document of a checks subcollection (its timestamp, which orders the
\* documents as they were added, is their position).
CheckDoc(name) == [name |-> name]

\* What the listener of date d sees in the checks of st: the documents
\* stored, then the local writes addDoc has not been answered for yet.
RECURSIVE PendingChecks(_, _)
PendingChecks(pending, d) ==
    IF pending = <<>> THEN <<>>
    ELSE (IF Head(pending).date = d THEN <<CheckDoc(Head(pending).name)>>
          ELSE <<>>) \o PendingChecks(Tail(pending), d)

QuerySnapshot(st, pending, d) == st[d] \o PendingChecks(pending, d)

\* unsubscribeChecks(), the cleanup of the effect that listened to d.
Unsubscribed(ls, d) == [ls EXCEPT ![d] = "off"]

\* onSnapshot(q, ...) for date d: the first snapshot is delivered later.
Subscribed(ls, d) == [ls EXCEPT ![d] = "pending"]

\* The checks of date d changed: its listener, if any, is to be called.
Notified(ls, d) == [ls EXCEPT ![d] = IF @ = "off" THEN "off" ELSE "pending"]

\* The names typed in the stamp form: white space only, a name, and a name
\* after a space.
NameInputs == {<<" ", "u3000">>, <<"A">>, <<" ", "B">>}

\* The localStorage of the browser when the session starts: no name, or the
\* name an earlier visit remembered.
InitialStorages == {{}, {<<"viewerName", <<"A">>>>}}

-----------------------------------------------------------------------------
(* The inputs of the handlers. *)

\* The id of a record of the list, and an id no record has.
EditIds == {2, 9}
\* A short text with a digit pair, and a text longer than the grid.
NewTexts == {<<"1", "2", "a">>, Repeat(<<"a">>, GRID_ROWS + 1)}
NewTypes == {"contact", "normal"}
Directions == {-1, 1}

\* The user operations of a behaviour, and the requests in flight at a time.
MaxOps == 3
MaxInFlight == 2

RECURSIVE SumOver(_, _)
SumOver(f, S) ==
    IF S = {} THEN 0
    ELSE LET x == CHOOSE y \in S : TRUE IN f[x] + SumOver(f, S \ {x})

InFlight ==
    SumOver(loads, DOMAIN loads) + Len(saves) + Len(copies) + Len(stamps)

\* s without its i-th element.
RemoveAt(s, i) == SubSeq(s, 1, i - 1) \o SubSeq(s, i + 1, Len(s))

-----------------------------------------------------------------------------
(* The auth listener, handleLogin and handleLogout. *)

\* A listener for which every signed-in account is the administrator.
AuthListener_AnySignedIn(u) ==
    /\ user' = u
    /\ isAdmin' = (u # NoUser)
    /\ loading' = FALSE

\* A listener that takes a second address for the administrator's.
AuthListener_AllowOther(u) ==
    /\ user' = u
    /\ isAdmin' = (u # NoUser /\ u \in {ADMIN_EMAIL, OtherEmail})
    /\ loading' = FALSE

\* The onAuthStateChanged callback with principal u.
AuthListener(u) ==
    /\ user' = u
    /\ isAdmin' = (u # NoUser /\ u = ADMIN_EMAIL)
    /\ loading' = FALSE

\* The first notification after the listener is registered: the persisted
\* session's user, or null.
AuthStateChanged(u) ==
    /\ loading
    /\ nops < MaxOps
    /\ AuthListener(u)
    /\ nops' = nops + 1
    /\ last' = [op |-> "onAuthStateChanged", user |-> u, alert |-> "none"]
    /\ UNCHANGED <<pureVars, variantVars, stampVars, tz, currentDate, columns, dataLoading, store, loads, saves,
                   copies>>

\* The login button (shown when not isAdmin): signInWithPopup succeeds with
\* account u and the listener is notified.  A failed or cancelled popup only
\* logs.
handleLogin(u) ==
    /\ ~loading /\ ~isAdmin
    /\ nops < MaxOps
    /\ u # NoUser
    /\ AuthListener(u)
    /\ nops' = nops + 1
    /\ last' = [op |-> "handleLogin", user |-> u, alert |-> "none"]
    /\ UNCHANGED <<pureVars, variantVars, stampVars, tz, currentDate, columns, dataLoading, store, loads, saves,
                   copies>>

\* The logout button (shown when isAdmin): signOut succeeds, the listener is
\* notified with null, and setIsAdmin(false) follows.
handleLogout ==
    /\ ~loading /\ isAdmin
    /\ nops < MaxOps
    /\ user' = NoUser
    /\ isAdmin' = FALSE
    /\ loading' = FALSE
    /\ nops' = nops + 1
    /\ last' = [op |-> "handleLogout", alert |-> "none"]
    /\ UNCHANGED <<pureVars, variantVars, stampVars, tz, currentDate, columns, dataLoading, store, loads, saves,
                   copies>>

-----------------------------------------------------------------------------
(* Selecting a date, and the data-fetching effect. *)

\* setCurrentDate(d) and the effect that depends on currentDate: a new value
\* re-runs the effect, whose loadData sets dataLoading and issues getDoc; the
\* same value changes nothing (React re-renders on a changed state only).
\* The effect's cleanup unsubscribes the listener of the date left, and the
\* effect registers the listener of d, whose first snapshot is to come.
SetCurrentDate(d) ==
    IF d = currentDate
    THEN UNCHANGED <<currentDate, dataLoading, loads, listeners>>
    ELSE /\ InFlight < MaxInFlight
         /\ currentDate' = d
         /\ dataLoading' = TRUE
         /\ loads' = [loads EXCEPT ![d] = @ + 1]
         /\ listeners' = Subscribed(Unsubscribed(listeners, currentDate), d)

\* The date input's onChange.
SelectDate(d) ==
    /\ ~loading
    /\ nops < MaxOps
    /\ SetCurrentDate(d)
    /\ nops' = nops + 1
    /\ last' = [op |-> "selectDate", date |-> d, alert |-> "none"]
    /\ UNCHANGED <<pureVars, variantVars, tz, user, isAdmin, loading, columns, store,
                   saves, copies, checks, checkName, hasChecked, localStorage,
                   checkStore, stamps>>

\* The key changeDate(days) computes from key.
ChangeDateKey(key, days) ==
    LET d == NewDate(key)
    IN  LocalDateKey(setDate(d, getDate(d) + days))

changeDate(days) ==
    /\ ~loading
    /\ nops < MaxOps
    /\ ChangeDateKey(currentDate, days) \in AppDates
    /\ SetCurrentDate(ChangeDateKey(currentDate, days))
    /\ nops' = nops + 1
    /\ last' = [op |-> "changeDate", days |-> days, alert |-> "none"]
    /\ UNCHANGED <<pureVars, variantVars, tz, user, isAdmin, loading, columns, store,
                   saves, copies, checks, checkName, hasChecked, localStorage,
                   checkStore, stamps>>

\* A load that leaves the list alone when no note is stored.
LoadedColumns_KeepOnAbsent(snap) ==
    IF snap.exists THEN snap.columns ELSE columns

\* The list loadData sets from the document snapshot snap.
LoadedColumns(snap) ==
    IF snap.exists THEN snap.columns ELSE DEFAULT_COLUMNS

\* loadData's getDoc for key d answers (ok) or fails; the answer is the
\* store's document when it is delivered.  Nothing cancels a load whose date
\* is no longer selected.
LoadDone(d, ok) ==
    /\ loads[d] > 0
    /\ loads' = [loads EXCEPT ![d] = @ - 1]
    /\ columns' = IF ~ok THEN columns ELSE LoadedColumns(GetDoc(store, d))
    /\ dataLoading' = FALSE
    /\ last' = [op |-> "loadData", date |-> d, ok |-> ok, alert |-> "none"]
    /\ UNCHANGED <<pureVars, variantVars, stampVars, tz, user, isAdmin, loading, currentDate, store, saves,
                   copies, nops>>

-----------------------------------------------------------------------------
(* saveData and the authoring handlers. *)

\* A save of the records that hold a text only.
saveData_FilledOnly(newColumns, cIsAdmin, cUser, cDate) ==
    IF ~cIsAdmin \/ cUser = NoUser THEN <<>>
    ELSE << [key |-> cDate,
             doc |-> [exists |-> TRUE,
                      columns |-> SelectSeq(newColumns,
                                            LAMBDA c : c.text # <<>>),
                      date |-> cDate, updatedBy |-> cUser]] >>

\* A save that writes today's date into the document's body.
saveData_DateOfToday(newColumns, cIsAdmin, cUser, cDate) ==
    IF ~cIsAdmin \/ cUser = NoUser THEN <<>>
    ELSE << [key |-> cDate,
             doc |-> NoteDoc(newColumns, getTodayString, cUser)] >>

\* The setDoc calls saveData(newColumns) issues, in the closure of a render
\* whose state is cIsAdmin, cUser, cDate: none or one.
saveData(newColumns, cIsAdmin, cUser, cDate) ==
    IF ~cIsAdmin \/ cUser = NoUser THEN <<>>
    ELSE << [key |-> cDate, doc |-> NoteDoc(newColumns, cDate, cUser)] >>

\* The editing panel is rendered once auth has loaded, for the administrator.
PanelShown == ~loading /\ isAdmin

\* The id taken for a position of the list.
WithText_ByPosition(cols, id, newText) ==
    [k \in 1 .. Len(cols) |->
        IF k = id THEN [cols[k] EXCEPT !.text = newText] ELSE cols[k]]

\* columns.map(col => col.id === id ? { ...col, text: newText } : col)
WithText(cols, id, newText) ==
    [k \in 1 .. Len(cols) |->
        IF cols[k].id = id THEN [cols[k] EXCEPT !.text = newText] ELSE cols[k]]

handleTextChange(id, newText) ==
    /\ PanelShown
    /\ nops < MaxOps /\ InFlight < MaxInFlight
    /\ columns' = WithText(columns, id, newText)
    /\ saves' = saves \o saveData(columns', isAdmin, user, currentDate)
    /\ nops' = nops + 1
    /\ last' = [op |-> "handleTextChange", id |-> id, text |-> newText,
                alert |-> "none"]
    /\ UNCHANGED <<pureVars, variantVars, stampVars, tz, user, isAdmin, loading, currentDate, dataLoading, store,
                   loads, copies>>

\* columns.map(col => col.id === id ? { ...col, type: newType } : col)
WithType(cols, id, newType) ==
    [k \in 1 .. Len(cols) |->
        IF cols[k].id = id THEN [cols[k] EXCEPT !.type = newType] ELSE cols[k]]

handleTypeChange(id, newType) ==
    /\ PanelShown
    /\ nops < MaxOps /\ InFlight < MaxInFlight
    /\ columns' = WithType(columns, id, newType)
    /\ saves' = saves \o saveData(columns', isAdmin, user, currentDate)
    /\ nops' = nops + 1
    /\ last' = [op |-> "handleTypeChange", id |-> id, type |-> newType,
                alert |-> "none"]
    /\ UNCHANGED <<pureVars, variantVars, stampVars, tz, user, isAdmin, loading, currentDate, dataLoading, store,
                   loads, copies>>

\* An early return that tests the upper end only.
MoveRejected_UpperOnly(cols, index, direction) ==
    index + direction >= Len(cols)

\* The early return of moveRow.
MoveRejected(cols, index, direction) ==
    index + direction < 0 \/ index + direction >= Len(cols)

\* An exchange without the temporary: the second assignment is lost.
Swapped_Overwrite(cols, index, targetIndex) ==
    [k \in 1 .. Len(cols) |->
        IF k - 1 = index THEN At(cols, targetIndex) ELSE cols[k]]

\* [newColumns[index], newColumns[targetIndex]] =
\*     [newColumns[targetIndex], newColumns[index]], indices zero-based: the
\* right-hand side is read first.  A read outside the array is undefined, a
\* write past its end lengthens it, and a write at a negative index sets a
\* property that is no element.
Swapped(cols, index, targetIndex) ==
    LET n == IF index + 1 > Len(cols) \/ targetIndex + 1 > Len(cols)
             THEN (IF index > targetIndex THEN index + 1 ELSE targetIndex + 1)
             ELSE Len(cols)
    IN  [k \in 1 .. n |->
            IF k - 1 = index THEN At(cols, targetIndex)
            ELSE IF k - 1 = targetIndex THEN At(cols, index)
            ELSE At(cols, k - 1)]

\* The arrow buttons of the record at index (the buttons at the two ends are
\* rendered disabled; the early return guards the same two calls).
moveRow(index, direction) ==
    /\ PanelShown
    /\ nops < MaxOps /\ InFlight < MaxInFlight
    /\ index \in 0 .. Len(columns) - 1
    /\ IF MoveRejected(columns, index, direction)
       THEN UNCHANGED <<columns, saves>>
       ELSE /\ columns' = Swapped(columns, index, index + direction)
            /\ saves' = saves \o saveData(columns', isAdmin, user, currentDate)
    /\ nops' = nops + 1
    /\ last' = [op |-> "moveRow", index |-> index, direction |-> direction,
                alert |-> "none"]
    /\ UNCHANGED <<pureVars, variantVars, stampVars, tz, user, isAdmin, loading, currentDate, dataLoading, store,
                   loads, copies>>

\* A write that is applied although it is reported as failed.
SetDoc_AppliedOnFailure(st, put, ok) == [st EXCEPT ![put.key] = put.doc]

\* The store after setDoc(docRef, doc) was answered: the document replaces
\* the stored one, or the write is rejected as a whole.
SetDoc(st, put, ok) == IF ok THEN [st EXCEPT ![put.key] = put.doc] ELSE st

\* setDoc is acknowledged, and the document replaces the stored one, or it is
\* rejected, and saveData alerts.  The client sends its writes in order.
SaveDone(ok) ==
    /\ saves # <<>>
    /\ saves' = Tail(saves)
    /\ store' = SetDoc(store, Head(saves), ok)
    /\ last' = [op |-> "saveData", key |-> Head(saves).key, ok |-> ok,
                alert |-> IF ok THEN "none" ELSE "saveFailed"]
    /\ UNCHANGED <<pureVars, variantVars, stampVars, tz, user, isAdmin, loading, currentDate, columns,
                   dataLoading, loads, copies, nops>>

-----------------------------------------------------------------------------
(* handleCopyPreviousDay *)

\* previousDate as the handler computes it from currentDate.
PreviousDateKey(key) ==
    LET d == NewDate(key)
    IN  LocalDateKey(setDate(d, getDate(d) - 1))

\* The copy button: the confirm dialog is accepted or dismissed; accepted,
\* getDoc for previousDate is issued.  The continuation runs in the closure
\* of this render: its currentDate, isAdmin (true here) and user.
handleCopyPreviousDay(confirmed) ==
    /\ PanelShown
    /\ nops < MaxOps /\ InFlight < MaxInFlight
    /\ copies' = IF ~isAdmin \/ ~confirmed THEN copies
                 ELSE Append(copies,
                             [previousDate |-> PreviousDateKey(currentDate),
                              date |-> currentDate, isAdmin |-> isAdmin,
                              user |-> user])
    /\ nops' = nops + 1
    /\ last' = [op |-> "handleCopyPreviousDay", confirmed |-> confirmed,
                alert |-> "none"]
    /\ UNCHANGED <<pureVars, variantVars, stampVars, tz, user, isAdmin, loading, currentDate, columns,
                   dataLoading, store, loads, saves>>

\* The getDoc of the i-th copy in flight answers (ok) or fails.
CopyDone(i, ok) ==
    /\ i \in 1 .. Len(copies)
    /\ LET c == copies[i]
           snap == GetDoc(store, c.previousDate)
       IN  /\ copies' = RemoveAt(copies, i)
           /\ IF ok /\ snap.exists
              THEN /\ columns' = snap.columns
                   /\ saves' = saves \o
                          saveData(snap.columns, c.isAdmin, c.user, c.date)
              ELSE UNCHANGED <<columns, saves>>
           /\ last' = [op |-> "copyDone", date |-> c.date,
                       previousDate |-> c.previousDate,
                       alert |-> IF ~ok THEN "copyFailed"
                                 ELSE IF snap.exists THEN "copied"
                                 ELSE "notFound"]
    /\ UNCHANGED <<pureVars, variantVars, stampVars, tz, user, isAdmin, loading, currentDate, dataLoading, store,
                   loads, nops>>

-----------------------------------------------------------------------------
(* The stamp form, handleCheckStamp and the snapshot listener. *)

\* The stamp form is rendered for a viewer who has not stamped.
StampFormShown == ~loading /\ ~isAdmin /\ ~hasChecked

\* The name input's onChange.
setCheckName(name) ==
    /\ StampFormShown
    /\ nops < MaxOps
    /\ checkName' = name
    /\ nops' = nops + 1
    /\ last' = [op |-> "setCheckName", name |-> name, alert |-> "none"]
    /\ UNCHANGED <<pureVars, variantVars, tz, currentDate, clientVarsButLast,
                   checks, hasChecked, localStorage, checkStore, stamps,
                   listeners>>

\* A test for the empty string that does not trim.
NameRejected_EmptyOnly(name) == name = <<>>

\* checkName is blank: handleCheckStamp returns after its alert.
NameRejected(name) == Trim(name) = <<>>

\* The stamp button, up to await addDoc: the name is remembered and the
\* document is written locally, which the date's listener is told of.
handleCheckStamp ==
    /\ StampFormShown
    /\ nops < MaxOps /\ InFlight < MaxInFlight
    /\ IF NameRejected(checkName)
       THEN /\ UNCHANGED <<localStorage, stamps, listeners>>
            /\ last' = [op |-> "handleCheckStamp", name |-> checkName,
                        date |-> currentDate, alert |-> "nameRequired"]
       ELSE /\ localStorage' = SetItem(localStorage, "viewerName", checkName)
            /\ stamps' = Append(stamps,
                                [date |-> currentDate, name |-> checkName])
            /\ listeners' = Notified(listeners, currentDate)
            /\ last' = [op |-> "handleCheckStamp", name |-> checkName,
                        date |-> currentDate, alert |-> "none"]
    /\ nops' = nops + 1
    /\ UNCHANGED <<pureVars, variantVars, tz, currentDate, clientVarsButLast,
                   checks, checkName, hasChecked, checkStore>>

\* A collection that holds a name once.
AddDoc_UniqueName(log, name) ==
    IF \E i \in 1 .. Len(log) : log[i].name = name THEN log
    ELSE Append(log, CheckDoc(name))

\* The subcollection log after addDoc of a document with name: a new
\* document with an id of its own, the last by its timestamp.
AddDoc(log, name) == Append(log, CheckDoc(name))

\* addDoc is acknowledged, and the document is in the date's subcollection,
\* or it is rejected and the local write is undone; the continuation of
\* handleCheckStamp sets hasChecked or alerts.
StampDone(ok) ==
    /\ stamps # <<>>
    /\ stamps' = Tail(stamps)
    /\ checkStore' =
          IF ok THEN [checkStore EXCEPT ![Head(stamps).date] =
                          AddDoc(@, Head(stamps).name)]
          ELSE checkStore
    /\ hasChecked' = IF ok THEN TRUE ELSE hasChecked
    /\ listeners' = Notified(listeners, Head(stamps).date)
    /\ last' = [op |-> "stampDone", date |-> Head(stamps).date,
                name |-> Head(stamps).name, ok |-> ok,
                alert |-> IF ok THEN "none" ELSE "stampFailed"]
    /\ UNCHANGED <<pureVars, variantVars, tz, currentDate, clientVarsButLast,
                   nops, checks, checkName, localStorage>>

\* myName && checkList.some(c => c.name === myName)
NameChecked(ls, checkList) ==
    /\ HasItem(ls, "viewerName")
    /\ \E i \in 1 .. Len(checkList) :
          checkList[i].name = GetItem(ls, "viewerName", <<>>)

\* The onSnapshot callback of the listener of date d.
SnapshotDelivered(d) ==
    /\ listeners[d] = "pending"
    /\ listeners' = [listeners EXCEPT ![d] = "idle"]
    /\ checks' = QuerySnapshot(checkStore, stamps, d)
    /\ hasChecked' = NameChecked(localStorage, checks')
    /\ last' = [op |-> "onSnapshot", date |-> d, alert |-> "none"]
    /\ UNCHANGED <<pureVars, variantVars, tz, currentDate, clientVarsButLast,
                   nops, checkName, localStorage, checkStore, stamps>>

-----------------------------------------------------------------------------
(* The client's initial state: the first render and its effects have run. *)

ClientInit ==
    /\ tz \in AppZoneOffsets
    /\ currentDate = getTodayString
    /\ user = NoUser
    /\ isAdmin = FALSE
    /\ loading = TRUE
    /\ dataLoading = TRUE
    /\ columns = DEFAULT_COLUMNS
    /\ store \in InitialStores
    /\ loads = [k \in AppDates |-> IF k = currentDate THEN 1 ELSE 0]
    /\ saves = <<>>
    /\ copies = <<>>
    /\ nops = 0
    /\ last = [op |-> "init", alert |-> "none"]
    /\ checks = <<>>
    /\ localStorage \in InitialStorages
    /\ checkName = GetItem(localStorage, "viewerName", <<>>)
    /\ hasChecked = FALSE
    /\ checkStore = [k \in AppDates |-> <<>>]
    /\ stamps = <<>>
    /\ listeners = [k \in AppDates |->
                        IF k = currentDate THEN "pending" ELSE "off"]

\* The client's variables in the specifications of the pure functions.
ClientIdle ==
    /\ user = NoUser
    /\ isAdmin = FALSE
    /\ loading = TRUE
    /\ dataLoading = FALSE
    /\ columns = DEFAULT_COLUMNS
    /\ store = EmptyStore
    /\ loads = [k \in AppDates |-> 0]
    /\ saves = <<>>
    /\ copies = <<>>
    /\ nops = 0
    /\ last = [op |-> "init", alert |-> "none"]
    /\ checks = <<>>
    /\ localStorage = {}
    /\ checkName = <<>>
    /\ hasChecked = FALSE
    /\ checkStore = [k \in AppDates |-> <<>>]
    /\ stamps = <<>>
    /\ listeners = [k \in AppDates |-> "off"]

-----------------------------------------------------------------------------
(* The auth listener, handleLogin and handleLogout of the earlier variant,
   src/unnamed/part_000. *)

ALLOWED_EMAILS == {"d.a0807derude@gmail.com"}

\* The admin address in another letter case: another string.
UpperEmail == "D.A0807DERUDE@gmail.com"
AuthPrincipals == Principals \cup {UpperEmail}

\* The onAuthStateChanged callback with principal u, up to its await: an
\* account that is not allowed is signed out first.
AuthListener0(u) ==
    IF u # NoUser /\ u \notin ALLOWED_EMAILS
    THEN /\ pending0' = u
         /\ UNCHANGED <<user0, loading0>>
    ELSE /\ user0' = u
         /\ loading0' = FALSE
         /\ UNCHANGED pending0

\* The first notification: the persisted session's account, or null.
AuthStateChanged0(u) ==
    /\ loading0 /\ pending0 = NoUser
    /\ nops < MaxOps
    /\ authUser0' = u
    /\ AuthListener0(u)
    /\ nops' = nops + 1
    /\ last' = [op |-> "onAuthStateChanged0", user |-> u, alert |-> "none"]
    /\ UNCHANGED <<pureVars, stampVars, tz, currentDate, clientVarsButLast,
                   columns0>>

\* The login button (shown when there is no user): signInWithPopup succeeds
\* with account u and the listener is notified; handleLogin signs an account
\* that is not allowed out as well.
handleLogin0(u) ==
    /\ ~loading0 /\ user0 = NoUser /\ pending0 = NoUser
    /\ nops < MaxOps
    /\ u # NoUser
    /\ authUser0' = u
    /\ AuthListener0(u)
    /\ nops' = nops + 1
    /\ last' = [op |-> "handleLogin0", user |-> u, alert |-> "none"]
    /\ UNCHANGED <<pureVars, stampVars, tz, currentDate, clientVarsButLast,
                   columns0>>

\* The logout button (shown when there is a user): signOut succeeds, the
\* listener is notified with null, and the columns are reset.
handleLogout0 ==
    /\ ~loading0 /\ user0 # NoUser
    /\ nops < MaxOps
    /\ authUser0' = NoUser
    /\ AuthListener0(NoUser)
    /\ columns0' = DEFAULT_COLUMNS
    /\ nops' = nops + 1
    /\ last' = [op |-> "handleLogout0", alert |-> "none"]
    /\ UNCHANGED <<pureVars, stampVars, tz, currentDate, clientVarsButLast>>

\* The signOut of an account that is not allowed completes: the listener is
\* notified with null, and the callback that awaited alerts and sets the
\* user to null.
SignOutDone0 ==
    /\ pending0 # NoUser
    /\ authUser0' = NoUser
    /\ user0' = NoUser
    /\ loading0' = FALSE
    /\ pending0' = NoUser
    /\ last' = [op |-> "signOutDone0", user |-> pending0,
                alert |-> "notAllowed"]
    /\ UNCHANGED <<pureVars, stampVars, tz, currentDate, clientVarsButLast,
                   nops, columns0>>

\* The variant before its first auth notification.
VariantInit ==
    /\ authUser0 = NoUser
    /\ user0 = NoUser
    /\ loading0 = TRUE
    /\ columns0 = DEFAULT_COLUMNS
    /\ pending0 = NoUser

-----------------------------------------------------------------------------
(* The specifications. *)

Init == ClientInit /\ VariantInit /\ RenderIdle /\ DateIdle

Next ==
    \/ \E u \in Principals : AuthStateChanged(u)
    \/ \E u \in Principals : handleLogin(u)
    \/ handleLogout
    \/ \E d \in AppDates : SelectDate(d)
    \/ \E days \in Directions : changeDate(days)
    \/ \E d \in AppDates, ok \in BOOLEAN : LoadDone(d, ok)
    \/ \E id \in EditIds, t \in NewTexts : handleTextChange(id, t)
    \/ \E id \in EditIds, t \in NewTypes : handleTypeChange(id, t)
    \/ \E i \in 0 .. Len(columns) - 1, dir \in Directions : moveRow(i, dir)
    \/ \E ok \in BOOLEAN : SaveDone(ok)
    \/ \E c \in BOOLEAN : handleCopyPreviousDay(c)
    \/ \E i \in 1 .. Len(copies), ok \in BOOLEAN : CopyDone(i, ok)
    \/ \E name \in NameInputs : setCheckName(name)
    \/ handleCheckStamp
    \/ \E ok \in BOOLEAN : StampDone(ok)
    \/ \E d \in AppDates : SnapshotDelivered(d)

Spec == Init /\ [][Next]_vars

\* Signing in and out, in the client and in its earlier variant.
AuthSpecNext ==
    \/ \E u \in AuthPrincipals : AuthStateChanged(u)
    \/ \E u \in AuthPrincipals : handleLogin(u)
    \/ handleLogout
    \/ \E u \in AuthPrincipals : AuthStateChanged0(u)
    \/ \E u \in AuthPrincipals : handleLogin0(u)
    \/ handleLogout0
    \/ SignOutDone0

AuthSpec == Init /\ [][AuthSpecNext]_vars

RenderSpecInit ==
    /\ RenderInit /\ DateIdle /\ ClientIdle /\ VariantInit
    /\ currentDate = <<>> /\ tz = 0

RenderSpecNext ==
    RenderColumn /\ UNCHANGED <<dateVars, tz, currentDate, clientVars,
                                stampVars, variantVars>>

RenderSpec == RenderSpecInit /\ [][RenderSpecNext]_vars

DateSpecInit == DateInit /\ RenderIdle /\ ClientIdle /\ VariantInit

DateSpecNext ==
    RenderDate /\ UNCHANGED <<renderVars, clientVars, stampVars, variantVars>>

DateSpec == DateSpecInit /\ [][DateSpecNext]_vars

-----------------------------------------------------------------------------
(* Properties of parseTextToChars and NotebookColumn (RenderSpec). *)

RECURSIVE Concat(_)
\* The char fields of the units, concatenated in order.
Concat(units) ==
    IF units = <<>> THEN <<>> ELSE Head(units).char \o Concat(Tail(units))

RECURSIVE TotalLength(_)
TotalLength(units) ==
    IF units = <<>> THEN 0 ELSE Len(Head(units).char) + TotalLength(Tail(units))

\* The one-based position in the text at which the k-th unit starts.
UnitStart(units, k) == 1 + TotalLength(SubSeq(units, 1, k - 1))

Paired(a, b) == [char |-> <<a, b>>, isTateChuYoko |-> TRUE]
Single(a) == [char |-> <<a>>, isTateChuYoko |-> FALSE]

\* C1: the char fields of parseTextToChars(s), concatenated in order, are s:
\* nothing is dropped, duplicated or reordered; every unit covers 1 or 2
\* code units; the unit lengths sum to len(s); the empty string gives the
\* empty sequence.
C1_UnitsReconstructText ==
    rpc = "rendered" =>
        /\ Concat(textChars) = data.text
        /\ \A k \in 1 .. Len(textChars) : Len(textChars[k].char) \in {1, 2}
        /\ TotalLength(textChars) = Len(data.text)
        /\ (data.text = <<>> => textChars = <<>>)

\* A text longer than the grid was segmented into pairs and single units.
C1_Witness ==
    /\ rpc = "rendered"
    /\ Len(data.text) > GRID_ROWS
    /\ \E k \in 1 .. Len(textChars) : Len(textChars[k].char) = 2
    /\ \E k \in 1 .. Len(textChars) : Len(textChars[k].char) = 1

\* C2: pairing is greedy, left to right and non-overlapping: the unit that
\* starts at scan position o is a pair (isTateChuYoko, 2 code units) exactly
\* when the code units at o and o + 1 are both ASCII digits, and is one
\* unpaired code unit otherwise; "1234" gives [12, 34], "123" gives [12, 3],
\* "a12b" gives [a, 12, b], "1a2" gives three single units.
C2_GreedyDigitPairing ==
    /\ rpc = "rendered" =>
         \A k \in 1 .. Len(textChars) :
            LET o == UnitStart(textChars, k)
                both == /\ o + 1 <= Len(data.text)
                        /\ IsDigit(data.text[o])
                        /\ IsDigit(data.text[o + 1])
                n == IF both THEN 2 ELSE 1
            IN  /\ o <= Len(data.text)
                /\ textChars[k].isTateChuYoko = both
                /\ textChars[k].char = SubSeq(data.text, o, o + n - 1)
    /\ parseTextToChars(<<"1", "2", "3", "4">>)
           = <<Paired("1", "2"), Paired("3", "4")>>
    /\ parseTextToChars(<<"1", "2", "3">>) = <<Paired("1", "2"), Single("3")>>
    /\ parseTextToChars(<<"a", "1", "2", "b">>)
           = <<Single("a"), Paired("1", "2"), Single("b")>>
    /\ parseTextToChars(<<"1", "a", "2">>)
           = <<Single("1"), Single("a"), Single("2")>>

\* A digit left alone after a pair (an odd run of digits) stayed unpaired, in
\* a text that also holds a code unit that is no digit.
C2_Witness ==
    /\ rpc = "rendered"
    /\ \E k \in 2 .. Len(textChars) :
          /\ textChars[k - 1].isTateChuYoko
          /\ ~textChars[k].isTateChuYoko
          /\ IsDigit(textChars[k].char[1])
    /\ \E k \in 1 .. Len(textChars) : ~IsDigit(textChars[k].char[1])

\* C3: the content column has exactly 12 cells: cell 0 is the marker carrying
\* the record's category; for i in 1..11 cell i is the (i-1)-th unit of the
\* segmented text when there is one and null otherwise; units from index 11
\* on are discarded; the empty text gives the marker and 11 nulls.
C3_ColumnHasTwelveCells ==
    rpc = "rendered" =>
        /\ DOMAIN cells = 0 .. 11
        /\ cells[0] = [isMark |-> TRUE, markType |-> data.type]
        /\ \A i \in 1 .. 11 :
              cells[i] = IF i - 1 < Len(textChars) THEN textChars[i] ELSE Null
        /\ (data.text = <<>> => \A i \in 1 .. 11 : cells[i] = Null)

\* A text of more than 11 units was rendered: units were discarded.
C3_Witness ==
    /\ rpc = "rendered"
    /\ Len(textChars) > 11
    /\ cells[11] = textChars[11]

-----------------------------------------------------------------------------
(* Properties of formatDateDisplay (DateSpec). *)

\* The fields of a date key, read from its characters.
KeyYear(key) == ParseDigits(SubSeq(key, 1, 4))
KeyMonth(key) == ParseDigits(SubSeq(key, 6, 7))
KeyDay(key) == ParseDigits(SubSeq(key, 9, 10))

\* The day of the week of a Gregorian date, 0 for Sunday (Zeller's
\* congruence, with January and February counted in the year before).
DayOfWeek(y, m, d) ==
    LET mm == IF m < 3 THEN m + 12 ELSE m
        yy == IF m < 3 THEN y - 1 ELSE y
        k == yy % 100
        j == yy \div 100
        h == (d + (13 * (mm + 1)) \div 5 + k + k \div 4 + j \div 4 + 5 * j) % 7
    IN  (h + 6) % 7

\* C4: for every valid date key, formatDateDisplay yields "{month}getsu{day}
\* nichi" from the key's own month and day (1-based, not padded) and the
\* weekday of that same calendar date from the Sunday-first table, whatever
\* the client's time-zone offset.
C4_LabelIsOfTheKeysDate ==
    dpc = "rendered" =>
        /\ display.date =
              NumberToString(KeyMonth(currentDate)) \o <<"getsu">>
                  \o NumberToString(KeyDay(currentDate)) \o <<"nichi">>
        /\ display.weekday =
              <<WEEKDAYS[DayOfWeek(KeyYear(currentDate), KeyMonth(currentDate),
                                   KeyDay(currentDate)) + 1]>>

-----------------------------------------------------------------------------
(* Properties of the authoring handlers (Spec).  A step of a user operation *)
(* raises nops and leaves the operation in last'; a step that completes a   *)
(* copy shortens copies.                                                    *)

UserStep(op) == nops' = nops + 1 /\ last'.op = op

\* The put a handler issues in a step: one more setDoc in flight, with the
\* document built from cols under key.
PutIssued(key, cols, by) ==
    saves' = Append(saves, [key |-> key, doc |-> NoteDoc(cols, key, by)])

\* C5: moveRecord(index, direction) whose target index + direction is below 0
\* or at or above the list length is a no-op: the record list is unchanged,
\* no put is issued and no error is raised.
C5_MoveOutOfBoundsIsNoOp ==
    [][(/\ UserStep("moveRow")
        /\ \/ last'.index + last'.direction < 0
           \/ last'.index + last'.direction >= Len(columns))
       => /\ columns' = columns
          /\ saves' = saves
          /\ store' = store
          /\ last'.alert = "none"]_vars

\* moveRow was called on the first record upwards or on the last downwards.
C5_Witness ==
    /\ last.op = "moveRow"
    /\ \/ last.index = 0 /\ last.direction = -1
       \/ last.index = Len(columns) - 1 /\ last.direction = 1

\* How often record r occurs in the list.
Occurrences(cols, r) == Cardinality({k \in 1 .. Len(cols) : cols[k] = r})

\* C6: moveRecord(index, direction) with 0 <= index < length and an in-bounds
\* target exchanges exactly the records at index and index + direction: every
\* other position keeps its record, and the length and the multiset of
\* records (ids, categories, texts) are unchanged.
C6_MoveExchangesNeighbours ==
    [][(/\ UserStep("moveRow")
        /\ last'.index \in 0 .. Len(columns) - 1
        /\ last'.index + last'.direction \in 0 .. Len(columns) - 1)
       => LET i == last'.index + 1
              t == last'.index + last'.direction + 1
          IN  /\ Len(columns') = Len(columns)
              /\ columns'[i] = columns[t]
              /\ columns'[t] = columns[i]
              /\ \A k \in 1 .. Len(columns) :
                    k \notin {i, t} => columns'[k] = columns[k]
              /\ \A k \in 1 .. Len(columns) :
                    Occurrences(columns', columns[k])
                        = Occurrences(columns, columns[k])]_vars

\* Two records that differ in more than their ids changed places.
C6_Witness ==
    /\ last.op = "moveRow"
    /\ last.index + last.direction \in 0 .. Len(columns) - 1
    /\ columns[last.index + 1].id # last.index + 1
    /\ \E k \in 1 .. Len(columns) : columns[k].text # <<>>

\* C7: setText(id, text) changes only the text of the records whose id is id,
\* and setCategory(id, category) only their category: the other records, the
\* other fields, the order and the length are unchanged; a text longer than
\* the grid is stored as given; an id no record has leaves the list as it was.
C7_EditChangesOneField ==
    [][/\ UserStep("handleTextChange") =>
            /\ Len(columns') = Len(columns)
            /\ \A k \in 1 .. Len(columns) :
                  columns'[k] =
                      IF columns[k].id = last'.id
                      THEN [id |-> columns[k].id, type |-> columns[k].type,
                            text |-> last'.text]
                      ELSE columns[k]
            /\ ((\A k \in 1 .. Len(columns) : columns[k].id # last'.id)
                    => columns' = columns)
       /\ UserStep("handleTypeChange") =>
            /\ Len(columns') = Len(columns)
            /\ \A k \in 1 .. Len(columns) :
                  columns'[k] =
                      IF columns[k].id = last'.id
                      THEN [id |-> columns[k].id, type |-> last'.type,
                            text |-> columns[k].text]
                      ELSE columns[k]
            /\ ((\A k \in 1 .. Len(columns) : columns[k].id # last'.id)
                    => columns' = columns)]_vars

\* A text of more than 11 code units was entered in a record that is not at
\* the position its id names, and is stored whole.
C7_Witness ==
    /\ last.op = "handleTextChange"
    /\ Len(last.text) > GRID_ROWS - 1
    /\ \E k \in 1 .. Len(columns) :
          columns[k].id = last.id /\ k # last.id /\ columns[k].text = last.text

\* C8: every successful authoring mutation by the administrator (setText,
\* setCategory, an in-bounds moveRecord, a copy that found data) issues
\* exactly one put, which carries the complete new record list, the list that
\* became the columns in memory.
C8_MutationIssuesOneWholePut ==
    [][/\ (\/ UserStep("handleTextChange")
           \/ UserStep("handleTypeChange")
           \/ /\ UserStep("moveRow")
              /\ last'.index + last'.direction \in 0 .. Len(columns) - 1)
          => PutIssued(currentDate, columns', ADMIN_EMAIL)
       /\ (Len(copies') < Len(copies) /\ last'.alert = "copied")
          => PutIssued(last'.date, columns', ADMIN_EMAIL)]_vars

\* A copy found the earlier day's list, which is in memory and in the put
\* issued last.
C8_Witness ==
    /\ last.op = "copyDone"
    /\ last.alert = "copied"
    /\ saves # <<>>
    /\ saves[Len(saves)].doc.columns = columns
    /\ \E k \in 1 .. Len(columns) : columns[k].text # <<>>

\* The key of the calendar day before the day of key, from the calendar's
\* rules.
PriorDayKey(key) ==
    LET y == KeyYear(key)
        m == KeyMonth(key)
        d == KeyDay(key)
    IN  IF d > 1 THEN DateKey(y, m, d - 1)
        ELSE IF m > 1 THEN DateKey(y, m - 1, DaysInMonth(y, m - 1))
        ELSE DateKey(y - 1, 12, 31)

\* A copy's read was answered (it did not fail) in this step.
CopyAnswered == Len(copies') < Len(copies) /\ last'.alert # "copyFailed"

\* C9: copyFromPreviousDay for a date whose predecessor has no stored note
\* leaves the columns in memory unmodified, issues no put, and signals
\* not-found.
C9_NoPriorNoteChangesNothing ==
    [][(CopyAnswered /\ ~GetDoc(store, PriorDayKey(last'.date)).exists)
       => /\ columns' = columns
          /\ saves' = saves
          /\ last'.alert = "notFound"]_vars

\* C10: copyFromPreviousDay invoked while date d is selected, when a note is
\* stored for the prior day, replaces the whole list in memory with the prior
\* day's stored list and persists that same list under key d.
C10_CopyTakesPriorDaysList ==
    [][(CopyAnswered /\ GetDoc(store, PriorDayKey(last'.date)).exists)
       => /\ columns' = GetDoc(store, PriorDayKey(last'.date)).columns
          /\ PutIssued(last'.date,
                       GetDoc(store, PriorDayKey(last'.date)).columns,
                       ADMIN_EMAIL)]_vars

\* C11: the key that copyFromPreviousDay reads is the key of the calendar day
\* exactly one day before the selected date, whatever the selected date (the
\* first day of a month included) and whatever the client's time zone.
C11_CopyReadsPriorDayKey ==
    [][(UserStep("handleCopyPreviousDay") /\ last'.confirmed)
       => /\ Len(copies') = Len(copies) + 1
          /\ copies'[Len(copies')].previousDate = PriorDayKey(currentDate)]_vars

\* C12: while the caller is not privileged (anonymous, or signed in with
\* another email than the allow-listed one), none of setText, setCategory,
\* moveRecord and copyFromPreviousDay takes effect: the record list is
\* changed by a load only, and no put is issued.
C12_NonPrivilegedHasNoEffect ==
    [][(~loading /\ user # ADMIN_EMAIL)
       => /\ (columns' # columns => last'.op = "loadData")
          /\ Len(saves') <= Len(saves)]_vars

\* C13: privileged status is the exact match with the one allow-listed email:
\* after every auth-state notification isAdmin is true if and only if a
\* principal is present and its email is the admin email, so isAdmin implies
\* a signed-in user with that email in every state; in the earlier variant
\* user is non-null only for an allow-listed email, and a session of any
\* other principal is being signed out.
C13_AdminIffAdminEmail ==
    /\ [](isAdmin => (user # NoUser /\ user = ADMIN_EMAIL))
    /\ [](user0 # NoUser => user0 \in ALLOWED_EMAILS)
    /\ []((authUser0 # NoUser /\ authUser0 \notin ALLOWED_EMAILS)
            => pending0 = authUser0)
    /\ [][/\ (UserStep("onAuthStateChanged") \/ UserStep("handleLogin"))
             => /\ user' = last'.user
                /\ isAdmin' = (last'.user # NoUser /\ last'.user = ADMIN_EMAIL)
          /\ UserStep("handleLogout") => (user' = NoUser /\ ~isAdmin')
          /\ last'.op = "signOutDone0" => (authUser0' = NoUser /\ user0' = NoUser)
         ]_vars

\* The administrator is signed in, and the variant has signed out an account
\* whose email differs from the allow-listed one in letter case only.
C13_Witness ==
    /\ isAdmin /\ user = ADMIN_EMAIL
    /\ last.op = "signOutDone0" /\ last.user = UpperEmail
    /\ user0 = NoUser /\ authUser0 = NoUser /\ ~loading0

\* A name that is empty or consists of white space only.
Blank(name) == \A i \in 1 .. Len(name) : name[i] \in WhiteSpace

\* C14: submitAcknowledgement with a name that is empty or white space only is
\* rejected: no append call is made to the store, the remembered name in
\* local storage is not changed, and hasChecked is not changed.
C14_BlankNameRejected ==
    [][(UserStep("handleCheckStamp") /\ Blank(checkName))
       => /\ stamps' = stamps
          /\ checkStore' = checkStore
          /\ localStorage' = localStorage
          /\ hasChecked' = hasChecked
          /\ last'.alert = "nameRequired"]_vars

\* A name of white space was submitted and rejected while another name is
\* remembered.
C14_Witness ==
    /\ last.op = "handleCheckStamp"
    /\ last.name # <<>> /\ Blank(last.name)
    /\ last.alert = "nameRequired"
    /\ HasItem(localStorage, "viewerName")
    /\ stamps = <<>>

\* log is an initial part of log2.
IsPrefix(log, log2) ==
    Len(log) <= Len(log2) /\ SubSeq(log2, 1, Len(log)) = log

\* C15: the acknowledgement log of each date is append-only: a submission
\* with a non-blank name makes one append call, for the date selected at
\* submission and with that name, and its acknowledgement appends exactly one
\* record with that name to that date's log, whether or not the name is in
\* the log already; no step updates or removes a record.
C15_LogIsAppendOnly ==
    [][/\ \A d \in AppDates : IsPrefix(checkStore[d], checkStore'[d])
       /\ (UserStep("handleCheckStamp") /\ ~Blank(checkName))
          => stamps' = Append(stamps, [date |-> currentDate,
                                       name |-> checkName])
       /\ (last'.op = "stampDone" /\ Len(stamps') < Len(stamps) /\ last'.ok)
          => /\ checkStore'[Head(stamps).date]
                   = Append(checkStore[Head(stamps).date],
                            [name |-> Head(stamps).name])
             /\ \A d \in AppDates \ {Head(stamps).date} :
                   checkStore'[d] = checkStore[d]
       /\ (checkStore' # checkStore)
          => (last'.op = "stampDone" /\ Len(stamps') < Len(stamps))]_vars

\* The log of a date holds the same name twice.
C15_Witness ==
    \E d \in AppDates :
        /\ Len(checkStore[d]) = 2
        /\ checkStore[d][1].name = checkStore[d][2].name
        /\ last.op = "stampDone"

\* C16: hasChecked is true only when a remembered name exists and that name
\* appears in the acknowledgement list of the currently selected date; a
\* stamp submitted for date A that completes after the user switched to date
\* B does not make hasChecked true for B.  Stated for the states in which the
\* selected date's snapshot has been delivered and no stamp is in flight.
C16_HasCheckedMeansNameInList ==
    (listeners[currentDate] = "idle" /\ stamps = <<>> /\ hasChecked)
        => /\ HasItem(localStorage, "viewerName")
           /\ \E i \in 1 .. Len(checkStore[currentDate]) :
                 checkStore[currentDate][i].name
                     = GetItem(localStorage, "viewerName", <<>>)

\* A load was answered or failed in this step, for date last'.date.
LoadAnswered == \E d \in AppDates : loads'[d] < loads[d]

\* C17: switching the selected date cancels the effect of the loads in
\* flight for the date left: the response for a date that is no longer
\* selected, whenever it arrives, does not overwrite the columns in memory.
C17_StaleLoadIsIgnored ==
    [][(LoadAnswered /\ last'.date # currentDate) => columns' = columns]_vars

\* A put was answered in this step.
PutAnswered == last'.op = "saveData" /\ Len(saves') < Len(saves)

\* C18: a failed persist never corrupts the state in memory: when a put
\* fails, the columns in memory stay exactly as they are (the optimistic
\* update is neither reverted nor partially applied), the stored documents
\* are unchanged, and the session goes on as before: what is rendered and
\* which operations it accepts do not change.
C18_FailedPutLeavesState ==
    [][(PutAnswered /\ ~last'.ok)
       => /\ columns' = columns
          /\ store' = store
          /\ last'.alert = "saveFailed"
          /\ <<user, isAdmin, loading, dataLoading, currentDate, nops>>'
                = <<user, isAdmin, loading, dataLoading, currentDate, nops>>
          /\ <<loads, copies, stamps>>' = <<loads, copies, stamps>>]_vars

\* The put of an edit failed: the edited list is in memory, the date has no
\* stored note, and the editing panel is still shown.
C18_Witness ==
    /\ last.op = "saveData" /\ ~last.ok
    /\ \E k \in 1 .. Len(columns) : columns[k].text # <<>>
    /\ ~GetDoc(store, last.key).exists
    /\ last.key = currentDate
    /\ PanelShown

\* The steps of the authoring mutations that issue a put.
AuthoringOps == {"handleTextChange", "handleTypeChange", "moveRow", "copyDone"}

\* C19: the note of a date is absent from the store until the first
\* privileged save for it: only the put of an authoring mutation of the
\* administrator creates or changes a note (viewing, navigating, loading and
\* stamping issue no put and change no note), and a note that exists is never
\* deleted.
C19_NoteOnlyByPrivilegedSave ==
    [][/\ \A k \in AppDates :
             /\ store[k].exists => store'[k].exists
             /\ store'[k] # store[k]
                => /\ PutAnswered /\ last'.ok /\ Head(saves).key = k
                   /\ store'[k] = Head(saves).doc
                   /\ store'[k].updatedBy = ADMIN_EMAIL
       /\ saves' # saves /\ ~PutAnswered
          => /\ last'.op \in AuthoringOps
             /\ Len(saves') = Len(saves) + 1
             /\ saves'[Len(saves')].doc.updatedBy = ADMIN_EMAIL]_vars

\* A second note is in the store, saved in this session, and another date
\* that was loaded still has none.
C19_Witness ==
    /\ last.op = "saveData" /\ last.ok
    /\ Cardinality({k \in AppDates : store[k].exists}) = 2
    /\ \E k \in AppDates : ~store[k].exists

\* The default list, as the specification gives it.
DefaultList(cols) ==
    /\ Len(cols) = 8
    /\ \A k \in 1 .. 8 :
          /\ cols[k].id = k
          /\ cols[k].text = <<>>
          /\ cols[k].type = << "handout", "homework", "normal", "contact",
                               "belongings", "empty", "empty", "empty" >>[k]
          /\ DOMAIN cols[k] = {"id", "type", "text"}

\* C20: when the load for the selected date completes successfully, the list
\* in memory becomes exactly the default list (8 records, ids 1..8 in order,
\* categories handout, homework, normal, contact, belongings, empty, empty,
\* empty, empty text) if the store holds no note for the date, and exactly
\* the stored list if it holds one.
C20_LoadGivesStoredOrDefault ==
    [][(LoadAnswered /\ last'.ok /\ last'.date = currentDate)
       => IF GetDoc(store, currentDate).exists
          THEN columns' = store[currentDate].columns
          ELSE DefaultList(columns')]_vars

\* The load of a date without a note, selected in this session, was
\* answered while a note is stored for another date: the defaults are shown.
C20_Witness ==
    /\ last.op = "loadData" /\ last.ok /\ last.date = currentDate
    /\ currentDate # getTodayString
    /\ ~store[currentDate].exists
    /\ store[getTodayString].exists
    /\ DefaultList(columns)
    /\ loads = [k \in AppDates |-> 0]

-----------------------------------------------------------------------------
(* C21 *)

\* The ids of the list cols are pairwise distinct.
UniqueIds(cols) ==
    \A i, j \in 1 .. Len(cols) : cols[i].id = cols[j].id => i = j

\* C21: in every reachable state the ids of the in-memory record list are
\* pairwise distinct, and so are the ids of the list of every note the store
\* holds, whatever loads, edits, moves and copies led there.
C21_IdsAreUnique ==
    /\ UniqueIds(columns)
    /\ \A k \in DOMAIN store : store[k].exists => UniqueIds(store[k].columns)

\* A put of this session was applied whose list, the one in memory, is in
\* another order than the default list and is not the earlier session's.
C21_Witness ==
    /\ last.op = "saveData" /\ last.ok
    /\ store[last.key].exists
    /\ store[last.key].columns = columns
    /\ columns # OldColumns
    /\ \E k \in 1 .. Len(columns) : columns[k].id # k

-----------------------------------------------------------------------------
(* C22 *)

\* The notices that report a failure to the user.
FailureNotices == {"loadFailed", "saveFailed", "copyFailed", "stampFailed"}

\* An append to a checks subcollection was answered in this step.
StampAnswered == last'.op = "stampDone" /\ Len(stamps') < Len(stamps)

\* C22: every collaborator failure is shown to the user: a failed note
\* load, a failed put and a failed append of a read receipt each raise a
\* failure notice, and an answered previous-day read always raises a notice
\* (copied, not found, or failed); after each of them the session goes on
\* with the same user, date and operations.
C22_FailuresAreNoticed ==
    [][/\ (LoadAnswered /\ ~last'.ok) => last'.alert \in FailureNotices
       /\ (PutAnswered /\ ~last'.ok) => last'.alert \in FailureNotices
       /\ (StampAnswered /\ ~last'.ok) => last'.alert \in FailureNotices
       /\ Len(copies') < Len(copies)
          => last'.alert \in FailureNotices \cup {"copied", "notFound"}
       /\ (LoadAnswered \/ PutAnswered \/ StampAnswered
             \/ Len(copies') < Len(copies))
          => <<user, isAdmin, loading, currentDate, nops>>'
                = <<user, isAdmin, loading, currentDate, nops>>]_vars

-----------------------------------------------------------------------------
(* C23 *)

\* The unit of a number of one or two digits: two digits are set upright in
\* one cell.
NumberUnit(cell) ==
    /\ DOMAIN cell = {"char", "isTateChuYoko"}
    /\ Len(cell.char) \in {1, 2}
    /\ \A k \in 1 .. Len(cell.char) : IsDigit(cell.char[k])
    /\ cell.isTateChuYoko = (Len(cell.char) = 2)

\* The unit of the single character c.
CharUnit(c) == [char |-> <<c>>, isTateChuYoko |-> FALSE]

\* C23: for every valid date key the date column has exactly 12 cells: cells
\* 0 and 1 are blank, cells 2..5 are the four units of the month/day label
\* (the month's number, the month sign, the day's number, the day sign; a
\* number of one or two digits is one unit), cell 6 is blank, cell 7 is the
\* weekday and cells 8..11 are blank, so no unit is cut off.
C23_DateColumnLayout ==
    dpc = "rendered" =>
        /\ DOMAIN dateCells = 0 .. 11
        /\ dateCells[0] = Null /\ dateCells[1] = Null
        /\ NumberUnit(dateCells[2])
        /\ dateCells[3] = CharUnit("getsu")
        /\ NumberUnit(dateCells[4])
        /\ dateCells[5] = CharUnit("nichi")
        /\ dateCells[2].char \o dateCells[3].char \o dateCells[4].char
              \o dateCells[5].char = display.date
        /\ dateCells[6] = Null
        /\ \E k \in 1 .. 7 : dateCells[7] = CharUnit(WEEKDAYS[k])
        /\ dateCells[7].char = display.weekday
        /\ \A i \in 8 .. 11 : dateCells[i] = Null

\* The longest label was rendered: a month and a day of two digits each.
C23_Witness ==
    /\ dpc = "rendered"
    /\ Len(display.date) = 6
    /\ dateCells[2].isTateChuYoko /\ dateCells[4].isTateChuYoko
    /\ dateCells[7] # Null

-----------------------------------------------------------------------------
(* C24 *)

\* The steps of the three editing handlers.
EditOps == {"handleTextChange", "handleTypeChange", "moveRow"}

\* The list in memory is the stored list of another date than the selected
\* one, whose own load has not been answered, and is not what that load
\* would give; no put is in flight.
ShowsNoteOfDateLeft ==
    /\ loads[currentDate] > 0
    /\ saves = <<>>
    /\ columns # LoadedColumns(GetDoc(store, currentDate))
    /\ \E a \in AppDates \ {currentDate} :
          store[a].exists /\ columns = store[a].columns

\* C24: the list put under a date key comes from that date's own content:
\* an edit made after the selected date changed from A to B and before B's
\* load was answered issues no put that carries A's records under key B.
C24_PutCarriesItsDatesList ==
    [][(ShowsNoteOfDateLeft /\ nops' = nops + 1 /\ last'.op \in EditOps)
       => ~\E i \in 1 .. Len(saves') : saves'[i].key = currentDate]_vars

-----------------------------------------------------------------------------
(* C25 *)

\* C25: in every reachable state the note stored under key d has its date
\* field equal to d and its updatedBy equal to the administrator's email,
\* and so has every put in flight: saveData writes the date it uses as the
\* document key into the document.
C25_StoredDateIsItsKey ==
    /\ \A k \in DOMAIN store :
          store[k].exists
             => store[k].date = k /\ store[k].updatedBy = ADMIN_EMAIL
    /\ \A i \in 1 .. Len(saves) :
          /\ saves[i].doc.date = saves[i].key
          /\ saves[i].doc.updatedBy = ADMIN_EMAIL

\* A put of this session was applied under a date the user has left since:
\* the stored note carries the key's date, not the selected one.
C25_Witness ==
    /\ last.op = "saveData" /\ last.ok
    /\ last.key # currentDate
    /\ store[last.key].exists
    /\ store[last.key].date = last.key

-----------------------------------------------------------------------------
(* C26 *)

\* C26: dataLoading tracks the loads in flight: it is true whenever at least
\* one note load has not been answered, also when loads of several dates
\* overlap and an earlier one is answered first, and it is false once every
\* load issued has been answered or has failed.
C26_DataLoadingTracksLoads ==
    dataLoading <=> (\E d \in AppDates : loads[d] > 0)

-----------------------------------------------------------------------------
(* C27 *)

\* The key of the calendar day after the day of key, from the calendar's
\* rules.
NextDayKey(key) ==
    LET y == KeyYear(key)
        m == KeyMonth(key)
        d == KeyDay(key)
    IN  IF d < DaysInMonth(y, m) THEN DateKey(y, m, d + 1)
        ELSE IF m < 12 THEN DateKey(y, m + 1, 1)
        ELSE DateKey(y + 1, 1, 1)

\* A zero-padded key YYYY-MM-DD of a date of the calendar.
WellFormedKey(key) ==
    /\ Len(key) = 10
    /\ key[5] = "-" /\ key[8] = "-"
    /\ \A k \in {1, 2, 3, 4, 6, 7, 9, 10} : IsDigit(key[k])
    /\ KeyMonth(key) \in 1 .. 12
    /\ KeyDay(key) \in 1 .. DaysInMonth(KeyYear(key), KeyMonth(key))

\* C27: changeDate(days) with days -1 or +1 moves the selected date key by
\* exactly one calendar day in that direction, whatever the client's time
\* zone: the new key is the calendar neighbour's well-formed key, and the
\* opposite change leads back from it to the key left.
C27_ChangeDateMovesOneDay ==
    [][UserStep("changeDate")
       => /\ currentDate' = IF last'.days = 1 THEN NextDayKey(currentDate)
                            ELSE PriorDayKey(currentDate)
          /\ WellFormedKey(currentDate')
          /\ ChangeDateKey(currentDate', 0 - last'.days) = currentDate]_vars

=============================================================================
